---- MODULE Spec2Model ----
(***************************************************************************)
(* A model of libblupkg: the SemVer value/range model (semver.py), the     *)
(* schema-driven decoder (unpack_dataclass.py) and the configuration       *)
(* records and loader (environment.py).                                    *)
(*                                                                         *)
(* Strings are sequences of ASCII code points, so that formatting,         *)
(* parsing and ASCII ordering are computed and not assumed:                *)
(*   '+' = 43, '-' = 45, '.' = 46, '0'..'9' = 48..57,                      *)
(*   'A'..'Z' = 65..90, 'a'..'z' = 97..122.                                *)
(***************************************************************************)
EXTENDS Integers, Sequences, FiniteSets, TLC

VARIABLES pc, ver, txt, ty, args, res

vars == <<pc, ver, txt, ty, args, res>>

(***************************************************************************)
(* Bounds of the model.                                                    *)
(***************************************************************************)
\* longest tail appended to a head when enumerating input strings
MaxTail == 4
\* longest generated prerelease sequence
MaxPre == 1
\* largest major/minor/patch of a generated version to format and re-parse
MaxPart == 1
\* most entries of a generated list or of a generated dependency table
MaxItems == 1

(***************************************************************************)
(* Text helpers.                                                           *)
(***************************************************************************)
NoResult == [ok |-> FALSE, err |-> "not run"]

\* no value
Blank == [kind |-> "none", n |-> 0, s |-> <<>>, v |-> <<>>]

IsDigit(c) == c \in 48..57

\* the character class [0-9A-Z-a-z\-\.] of SEM_VER_RE
InClass(c) == IsDigit(c) \/ c \in 65..90 \/ c \in 97..122 \/ c = 45 \/ c = 46

SubStr(s, i, j) == [k \in 1..(j - i + 1) |-> s[i + k - 1]]

\* greedy \d+ starting at position i: the index of the last digit of the run
\* (i - 1 when s[i] is no digit)
RECURSIVE ScanDigits(_, _)
ScanDigits(s, i) ==
    IF i <= Len(s) /\ IsDigit(s[i]) THEN ScanDigits(s, i + 1) ELSE i - 1

\* greedy [0-9A-Z-a-z\-\.]+ starting at position i
RECURSIVE ScanClass(_, _)
ScanClass(s, i) ==
    IF i <= Len(s) /\ InClass(s[i]) THEN ScanClass(s, i + 1) ELSE i - 1

\* str.isdigit() on ASCII text: non-empty and all digits
StrIsDigit(s) == Len(s) > 0 /\ \A i \in 1..Len(s) : IsDigit(s[i])

\* int(s) of a digit string
RECURSIVE StrToInt(_)
StrToInt(s) ==
    IF Len(s) = 0 THEN 0
    ELSE 10 * StrToInt(SubStr(s, 1, Len(s) - 1)) + (s[Len(s)] - 48)

\* str(n) of a non-negative int
RECURSIVE IntToStr(_)
IntToStr(n) ==
    IF n < 10 THEN <<48 + n>> ELSE IntToStr(n \div 10) \o <<48 + (n % 10)>>

\* s.split(sep): always at least one piece, pieces may be empty
RECURSIVE SplitFrom(_, _, _, _)
SplitFrom(s, sep, i, cur) ==
    IF i > Len(s) THEN <<cur>>
    ELSE IF s[i] = sep THEN <<cur>> \o SplitFrom(s, sep, i + 1, <<>>)
    ELSE SplitFrom(s, sep, i + 1, Append(cur, s[i]))

Split(s, sep) == SplitFrom(s, sep, 1, <<>>)

\* sep.join(parts)
RECURSIVE Join(_, _)
Join(parts, sep) ==
    IF Len(parts) = 0 THEN <<>>
    ELSE IF Len(parts) = 1 THEN parts[1]
    ELSE parts[1] \o <<sep>> \o Join(Tail(parts), sep)

(***************************************************************************)
(* SemVerExact: the value.  A prerelease identifier is an int or a str;    *)
(* the record keeps which, so that 1 and "1" differ as they do in Python.  *)
(***************************************************************************)
NumId(n) == [isint |-> TRUE, n |-> n, s |-> <<>>]

StrId(s) == [isint |-> FALSE, n |-> 0, s |-> s]

SemVerExact(major, minor, patch, prerelease, build_metadata) ==
    [major |-> major, minor |-> minor, patch |-> patch,
     prerelease |-> prerelease, build_metadata |-> build_metadata]

\* str(x) of one prerelease identifier
IdStr(x) == IF x.isint THEN IntToStr(x.n) ELSE x.s

\* SemVerExact.__str__
SemVerStr(v) ==
    LET base == IntToStr(v.major) \o <<46>> \o IntToStr(v.minor) \o <<46>>
                    \o IntToStr(v.patch)
        pre == IF Len(v.prerelease) > 0
               THEN <<45>> \o Join([i \in 1..Len(v.prerelease) |-> IdStr(v.prerelease[i])], 46)
               ELSE <<>>
        bld == IF Len(v.build_metadata) > 0
               THEN <<43>> \o Join(v.build_metadata, 46)
               ELSE <<>>
    IN base \o pre \o bld

\* re.match(SEM_VER_RE, s): the end positions of the groups, or matched = FALSE.
\* Every group is followed by a character outside its class, so the greedy
\* scan is the only way the expression can match.
SemVerMatch(s) ==
    LET e1 == ScanDigits(s, 1)
        e2 == ScanDigits(s, e1 + 2)
        e3 == ScanDigits(s, e2 + 2)
        head == /\ e1 >= 1
                /\ e1 + 1 <= Len(s) /\ s[e1 + 1] = 46
                /\ e2 >= e1 + 2
                /\ e2 + 1 <= Len(s) /\ s[e2 + 1] = 46
                /\ e3 >= e2 + 2
        pe == ScanClass(s, e3 + 2)
        hasPre == e3 + 1 <= Len(s) /\ s[e3 + 1] = 45 /\ pe >= e3 + 2
        ep == IF hasPre THEN pe ELSE e3
        be == ScanClass(s, ep + 2)
        hasBuild == ep + 1 <= Len(s) /\ s[ep + 1] = 43 /\ be >= ep + 2
        eb == IF hasBuild THEN be ELSE ep
    IN IF head /\ eb = Len(s)
       THEN [matched |-> TRUE,
             major |-> SubStr(s, 1, e1),
             minor |-> SubStr(s, e1 + 2, e2),
             patch |-> SubStr(s, e2 + 2, e3),
             hasPre |-> hasPre,
             prerelease_str |-> IF hasPre THEN SubStr(s, e3 + 1, ep) ELSE <<>>,
             hasBuild |-> hasBuild,
             build_metadata_str |-> IF hasBuild THEN SubStr(s, ep + 1, eb) ELSE <<>>]
       ELSE [matched |-> FALSE, major |-> <<>>, minor |-> <<>>, patch |-> <<>>,
             hasPre |-> FALSE, prerelease_str |-> <<>>,
             hasBuild |-> FALSE, build_metadata_str |-> <<>>]

\* (group or d).removeprefix(d): the group without its leading delimiter, or
\* the empty string when the group did not take part in the match
GroupBody(present, group) == IF present THEN Tail(group) ELSE <<>>

\* one identifier of the prerelease, as parse classifies it
ClassifyId(ident) == IF StrIsDigit(ident) THEN NumId(StrToInt(ident)) ELSE StrId(ident)

\* SemVerExact.parse
SemVerParse(s) ==
    LET m == SemVerMatch(s)
        idents == Split(GroupBody(m.hasPre, m.prerelease_str), 46)
        build == Split(GroupBody(m.hasBuild, m.build_metadata_str), 46)
    IN IF ~m.matched THEN [ok |-> FALSE, err |-> "not a valid SemVerExact string"]
       ELSE IF \E i \in 1..Len(idents) : Len(idents[i]) = 0
       THEN [ok |-> FALSE, err |-> "empty identifier in the pre-release version"]
       ELSE [ok |-> TRUE, err |-> "",
             val |-> SemVerExact(StrToInt(m.major), StrToInt(m.minor), StrToInt(m.patch),
                                 [i \in 1..Len(idents) |-> ClassifyId(idents[i])],
                                 build)]

\* Python's < on two str values: lexicographic by code point
RECURSIVE StrLess(_, _)
StrLess(s, t) ==
    IF Len(t) = 0 THEN FALSE
    ELSE IF Len(s) = 0 THEN TRUE
    ELSE IF s[1] # t[1] THEN s[1] < t[1]
    ELSE StrLess(Tail(s), Tail(t))

\* Python's < on two tuples of three ints
TupleLess(x, y) ==
    \/ x[1] < y[1]
    \/ x[1] = y[1] /\ x[2] < y[2]
    \/ x[1] = y[1] /\ x[2] = y[2] /\ x[3] < y[3]

Min(x, y) == IF x <= y THEN x ELSE y

\* PrereleaseLt with numeric identifiers compared as text, not as numbers
RECURSIVE PrereleaseLtTextual(_, _, _)
PrereleaseLtTextual(p, q, i) ==
    IF i > Min(Len(p), Len(q)) THEN Len(p) < Len(q)
    ELSE IF p[i] = q[i] THEN PrereleaseLtTextual(p, q, i + 1)
    ELSE IF p[i].isint /\ q[i].isint THEN StrLess(IntToStr(p[i].n), IntToStr(q[i].n))
    ELSE IF ~p[i].isint /\ ~q[i].isint THEN StrLess(p[i].s, q[i].s)
    ELSE IF p[i].isint /\ ~q[i].isint THEN TRUE
    ELSE FALSE

\* PrereleaseLt with <= in place of < on the lengths
RECURSIVE PrereleaseLtOrSame(_, _, _)
PrereleaseLtOrSame(p, q, i) ==
    IF i > Min(Len(p), Len(q)) THEN Len(p) <= Len(q)
    ELSE IF p[i] = q[i] THEN PrereleaseLtOrSame(p, q, i + 1)
    ELSE IF p[i].isint /\ q[i].isint THEN p[i].n < q[i].n
    ELSE IF ~p[i].isint /\ ~q[i].isint THEN StrLess(p[i].s, q[i].s)
    ELSE IF p[i].isint /\ ~q[i].isint THEN TRUE
    ELSE FALSE

\* the loop over zip(self.prerelease, other.prerelease) from pair i on, and
\* the comparison of lengths that follows it
RECURSIVE PrereleaseLt(_, _, _)
PrereleaseLt(p, q, i) ==
    IF i > Min(Len(p), Len(q)) THEN Len(p) < Len(q)
    ELSE IF p[i] = q[i] THEN PrereleaseLt(p, q, i + 1)
    ELSE IF p[i].isint /\ q[i].isint THEN p[i].n < q[i].n
    ELSE IF ~p[i].isint /\ ~q[i].isint THEN StrLess(p[i].s, q[i].s)
    ELSE IF p[i].isint /\ ~q[i].isint THEN TRUE
    ELSE FALSE

\* SemVerExact.__lt__
Lt(self, other) ==
    LET mmp == <<self.major, self.minor, self.patch>>
        other_mmp == <<other.major, other.minor, other.patch>>
    IN IF TupleLess(mmp, other_mmp) THEN TRUE
       ELSE IF TupleLess(other_mmp, mmp) THEN FALSE
       ELSE IF Len(self.prerelease) > 0 /\ Len(other.prerelease) = 0 THEN TRUE
       ELSE IF Len(other.prerelease) > 0 /\ Len(self.prerelease) = 0 THEN FALSE
       ELSE IF Len(self.prerelease) = 0 /\ Len(other.prerelease) = 0 THEN FALSE
       ELSE PrereleaseLt(self.prerelease, other.prerelease, 1)

(***************************************************************************)
(* SemVerRange.                                                            *)
(***************************************************************************)
SemVerRange(min, max) == [min |-> min, max |-> max]

\* PERMISSIVE_SEMVER.match(s): major[.minor[.patch]], nothing else
PermissiveMatch(s) ==
    LET e1 == ScanDigits(s, 1)
        e2 == ScanDigits(s, e1 + 2)
        e3 == ScanDigits(s, e2 + 2)
        hasMinor == e1 >= 1 /\ e1 + 1 <= Len(s) /\ s[e1 + 1] = 46 /\ e2 >= e1 + 2
        hasPatch == hasMinor /\ e2 + 1 <= Len(s) /\ s[e2 + 1] = 46 /\ e3 >= e2 + 2
        end == IF hasPatch THEN e3 ELSE IF hasMinor THEN e2 ELSE e1
    IN IF e1 >= 1 /\ end = Len(s)
       THEN [matched |-> TRUE,
             major |-> SubStr(s, 1, e1),
             minor |-> IF hasMinor THEN SubStr(s, e1 + 2, e2) ELSE <<>>,
             patch |-> IF hasPatch THEN SubStr(s, e2 + 2, e3) ELSE <<>>]
       ELSE [matched |-> FALSE, major |-> <<>>, minor |-> <<>>, patch |-> <<>>]

\* int(group or "0")
IntOrZero(group) == IF Len(group) = 0 THEN StrToInt(<<48>>) ELSE StrToInt(group)

\* SemVerRange.parse
RangeParse(s) ==
    LET m == PermissiveMatch(s)
        major == StrToInt(m.major)
        minor == IntOrZero(m.minor)
        patch == IntOrZero(m.patch)
    IN IF ~m.matched THEN [ok |-> FALSE, err |-> "not a permissive SemVer string"]
       ELSE IF major = 0
       THEN [ok |-> TRUE, err |-> "",
             val |-> SemVerRange(SemVerExact(0, minor, patch, <<>>, <<>>),
                                 SemVerExact(0, minor + 1, 0, <<>>, <<>>))]
       ELSE [ok |-> TRUE, err |-> "",
             val |-> SemVerRange(SemVerExact(major, minor, patch, <<>>, <<>>),
                                 SemVerExact(major + 1, 0, 0, <<>>, <<>>))]

(***************************************************************************)
(* Untyped data.  A Python value is a record of its type name (kind), its  *)
(* number (int and bool: the value; float: the value in tenths), its text  *)
(* (str) and its children (dict and dataclass instance: by key; list: by   *)
(* "0", "1", ...).                                                         *)
(***************************************************************************)
PyNone == [kind |-> "NoneType", n |-> 0, s |-> <<>>, v |-> <<>>]

PyStr(s) == [kind |-> "str", n |-> 0, s |-> s, v |-> <<>>]

PyInt(n) == [kind |-> "int", n |-> n, s |-> <<>>, v |-> <<>>]

PyBool(b) == [kind |-> "bool", n |-> IF b THEN 1 ELSE 0, s |-> <<>>, v |-> <<>>]

PyFloat(tenths) == [kind |-> "float", n |-> tenths, s |-> <<>>, v |-> <<>>]

PyList(elems) == [kind |-> "list", n |-> 0, s |-> <<>>, v |-> elems]

PyDict(items) == [kind |-> "dict", n |-> 0, s |-> <<>>, v |-> items]

Instance(cls, fields) == [kind |-> cls, n |-> 0, s |-> <<>>, v |-> fields]

Keys(d) == DOMAIN d.v

\* d[k] = x on a dict
Put(d, k, x) ==
    [d EXCEPT !.v = [key \in DOMAIN d.v \cup {k} |-> IF key = k THEN x ELSE d.v[key]]]

\* bool(x)
Truthy(x) ==
    CASE x.kind = "NoneType" -> FALSE
      [] x.kind = "str" -> Len(x.s) > 0
      [] x.kind \in {"int", "bool", "float"} -> x.n # 0
      [] x.kind \in {"list", "dict"} -> DOMAIN x.v # {}
      [] OTHER -> TRUE

\* "x", "target"
TextX == <<120>>

TextTarget == <<116, 97, 114, 103, 101, 116>>

(***************************************************************************)
(* The declared records of environment.py: for each dataclass its fields   *)
(* in declared order, with the declared type, whether a default value or   *)
(* factory is declared, and the default.                                   *)
(***************************************************************************)
Field(name, type, default) ==
    [name |-> name, type |-> type, required |-> FALSE, default |-> default]

Required(name, type) ==
    [name |-> name, type |-> type, required |-> TRUE, default |-> Blank]

Dataclasses ==
    {"BlupkgBuild", "BlupkgProject", "BlupkgDep", "BlupkgEnv",
     "BlupkgLockedPackage", "BlupkgLock"}

\* BlupkgLock.version, the lock format this version reads
SupportedLockVersion == 1

Fields(cls) ==
    CASE cls = "BlupkgBuild" ->
           << Field("target_dir", "str", PyStr(TextTarget)) >>
      [] cls = "BlupkgProject" ->
           << Required("name", "str"),
              Required("version", "str"),
              Field("toplevel", "Optional[str]", PyNone),
              Field("defines", "Dict[str, str]", PyDict(<<>>)),
              Field("features", "Dict[str, List[str]]", PyDict(<<>>)) >>
      [] cls = "BlupkgDep" ->
           << Field("git", "Optional[str]", PyNone),
              Field("path", "Optional[str]", PyNone),
              Field("version", "Optional[str]", PyNone),
              Field("rev", "Optional[str]", PyNone),
              Field("tag", "Optional[str]", PyNone),
              Field("branch", "Optional[str]", PyNone),
              Field("optional", "bool", PyBool(FALSE)) >>
      [] cls = "BlupkgEnv" ->
           << Required("project", "BlupkgProject"),
              Field("build", "BlupkgBuild",
                    Instance("BlupkgBuild", [k \in {"target_dir"} |-> PyStr(TextTarget)])),
              Field("dependencies", "Dict[str, BlupkgDep]", PyDict(<<>>)) >>
      [] cls = "BlupkgLockedPackage" ->
           << Required("name", "str"),
              Required("version", "str"),
              Required("dependencies", "Dict[str, BlupkgDep]"),
              Field("git", "Optional[Tuple[str, str]]", PyNone),
              Field("path", "Optional[str]", PyNone) >>
      [] cls = "BlupkgLock" ->
           << Required("packages", "List[BlupkgLockedPackage]"),
              Field("version", "int", PyInt(SupportedLockVersion)) >>

FieldNames(cls) == {Fields(cls)[i].name : i \in 1..Len(Fields(cls))}

FieldOf(cls, name) ==
    Fields(cls)[CHOOSE i \in 1..Len(Fields(cls)) : Fields(cls)[i].name = name]

\* get_origin(type) is Union
IsUnion(type) == type \in {"Optional[str]", "Optional[Tuple[str, str]]"}

\* the argument of Optional[...] left after removing NoneType
UnionArg(type) ==
    CASE type = "Optional[str]" -> "str"
      [] type = "Optional[Tuple[str, str]]" -> "Tuple[str, str]"

\* get_origin(type) or type: the class isinstance is asked about
OriginOrType(type) ==
    CASE type \in {"Dict[str, str]", "Dict[str, List[str]]", "Dict[str, BlupkgDep]"} -> "dict"
      [] type = "List[BlupkgLockedPackage]" -> "list"
      [] type = "Tuple[str, str]" -> "tuple"
      [] OTHER -> type

IsDataclass(type) == type \in Dataclasses

\* isinstance(val, cls); bool is a subclass of int
IsInstance(val, cls) == val.kind = cls \/ (cls = "int" /\ val.kind = "bool")

Fail(err, cls, field, expected, got, data) ==
    [ok |-> FALSE, err |-> err, ty |-> cls, field |-> field, expected |-> expected,
     got |-> got, data |-> data]

\* BlupkgDep.__post_init__: "" when it returns, else the error it raises
DepPostInit(self) ==
    LET git == self.v["git"]
        path == self.v["path"]
        discriminators == <<self.v["version"], self.v["rev"], self.v["tag"], self.v["branch"]>>
        set_discriminators == Cardinality({i \in 1..4 : Truthy(discriminators[i])})
    IN IF Truthy(git) /\ Truthy(path) THEN "both a repository and a local path"
       ELSE IF ~Truthy(git) /\ ~Truthy(path) THEN "one of (git, path) must be non-empty"
       ELSE IF set_discriminators # 0 /\ Truthy(path)
       THEN "can't set (version, rev, tag, or branch) if using a local path"
       ELSE IF set_discriminators # 1
       THEN "can't set more than one of (version, rev, tag, branch)"
       ELSE ""

\* cls(**data): the generated __init__ followed by __post_init__
Construct(cls, data) ==
    LET self == Instance(cls, [k \in FieldNames(cls) |->
                                 IF k \in Keys(data) THEN data.v[k]
                                 ELSE FieldOf(cls, k).default])
    IN IF \E k \in Keys(data) : k \notin FieldNames(cls)
       THEN Fail("TypeError: unexpected keyword argument", cls, "", "", Blank, data)
       ELSE IF \E k \in FieldNames(cls) : FieldOf(cls, k).required /\ k \notin Keys(data)
       THEN Fail("TypeError: missing required argument", cls, "", "", Blank, data)
       ELSE IF cls = "BlupkgDep" /\ DepPostInit(self) # ""
       THEN Fail(DepPostInit(self), cls, "", "", Blank, data)
       ELSE [ok |-> TRUE, err |-> "", val |-> self, data |-> data]

(***************************************************************************)
(* unpack_dataclass.  The result carries args_dict as the call leaves it,  *)
(* since the call writes decoded records back into it.                     *)
(***************************************************************************)
RECURSIVE UnpackDataclass(_, _)

\* the loop with field_required computed by "or": a field counts as required
\* as soon as its default value or its default factory is missing
RECURSIVE UnpackFieldsOr(_, _, _)
UnpackFieldsOr(cls, args_dict, i) ==
    IF i > Len(Fields(cls)) THEN [ok |-> TRUE, err |-> "", data |-> args_dict]
    ELSE
      LET field == Fields(cls)[i]
          field_type == IF IsUnion(field.type) THEN UnionArg(field.type) ELSE field.type
      IN IF field.name \in Keys(args_dict)
         THEN LET val == args_dict.v[field.name]
                  sub == IF ~IsDataclass(field_type) THEN [ok |-> TRUE, val |-> val]
                         ELSE UnpackDataclass(field_type, val)
              IN IF ~sub.ok
                 THEN [sub EXCEPT !.data = Put(args_dict, field.name, sub.data)]
                 ELSE IF ~IsInstance(sub.val, OriginOrType(field_type))
                 THEN Fail("requires the field to be of type", cls, field.name,
                           field_type, sub.val, args_dict)
                 ELSE UnpackFieldsOr(cls,
                                     IF IsDataclass(field_type)
                                     THEN Put(args_dict, field.name, sub.val)
                                     ELSE args_dict,
                                     i + 1)
         ELSE Fail("requires a field but none was supplied", cls, field.name, "", Blank,
                   args_dict)

RECURSIVE UnpackFields(_, _, _)
\* the loop over fields(ty) from the i-th field on
UnpackFields(cls, args_dict, i) ==
    IF i > Len(Fields(cls)) THEN [ok |-> TRUE, err |-> "", data |-> args_dict]
    ELSE
      LET field == Fields(cls)[i]
          field_required == field.required
          field_type == IF IsUnion(field.type) THEN UnionArg(field.type) ELSE field.type
      IN IF field.name \in Keys(args_dict)
         THEN LET val == args_dict.v[field.name]
                  sub == IF ~IsDataclass(field_type) THEN [ok |-> TRUE, val |-> val]
                         ELSE UnpackDataclass(field_type, val)
              IN IF ~sub.ok
                 THEN [sub EXCEPT !.data = Put(args_dict, field.name, sub.data)]
                 ELSE IF ~IsInstance(sub.val, OriginOrType(field_type))
                 THEN Fail("requires the field to be of type", cls, field.name,
                           field_type, sub.val, args_dict)
                 ELSE UnpackFields(cls,
                                   IF IsDataclass(field_type)
                                   THEN Put(args_dict, field.name, sub.val)
                                   ELSE args_dict,
                                   i + 1)
         ELSE IF field_required
         THEN Fail("requires a field but none was supplied", cls, field.name, "", Blank,
                   args_dict)
         ELSE UnpackFields(cls, args_dict, i + 1)

\* unpack_dataclass(ty, args_dict)
UnpackDataclass(cls, args_dict) ==
    IF args_dict.kind # "dict"
    THEN Fail("must be built from a dictionary", cls, "", "", args_dict, args_dict)
    ELSE LET done == UnpackFields(cls, args_dict, 1)
         IN IF done.ok THEN Construct(cls, done.data) ELSE done

(***************************************************************************)
(* load_blupkg_environment.  The files of the working directory are a dict *)
(* from file name to the table tomllib.load reads from the file; a file    *)
(* that cannot be opened is no key of it.                                  *)
(***************************************************************************)
\* int(x): the number, or the exception raised
PyIntConv(x) ==
    CASE x.kind \in {"int", "bool"} -> [ok |-> TRUE, n |-> x.n, err |-> ""]
      [] x.kind = "float" ->
           [ok |-> TRUE, n |-> IF x.n >= 0 THEN x.n \div 10 ELSE -((-x.n) \div 10),
            err |-> ""]
      [] x.kind = "str" ->
           IF StrIsDigit(x.s) THEN [ok |-> TRUE, n |-> StrToInt(x.s), err |-> ""]
           ELSE IF Len(x.s) > 1 /\ x.s[1] \in {43, 45} /\ StrIsDigit(Tail(x.s))
           THEN [ok |-> TRUE,
                 n |-> IF x.s[1] = 45 THEN -StrToInt(Tail(x.s)) ELSE StrToInt(Tail(x.s)),
                 err |-> ""]
           ELSE [ok |-> FALSE, n |-> 0, err |-> "ValueError"]
      [] OTHER -> [ok |-> FALSE, n |-> 0, err |-> "TypeError"]

Loaded(env, lock, decoded) ==
    [ok |-> TRUE, err |-> "", env |-> env, lock |-> lock, decoded |-> decoded]

Raised(err, decoded) ==
    [ok |-> FALSE, err |-> err, env |-> Blank, lock |-> Blank, decoded |-> decoded]

\* load_blupkg_environment(); decoded tells whether the lock was handed to
\* unpack_dataclass
LoadBlupkgEnvironment(files) ==
    IF "Blupkg.toml" \notin Keys(files) THEN Raised("OSError", FALSE)
    ELSE
      LET env == UnpackDataclass("BlupkgEnv", files.v["Blupkg.toml"])
          lock_dict == files.v["Blupkg.lock"]
          lock_version == IF "version" \in Keys(lock_dict) THEN lock_dict.v["version"]
                          ELSE PyNone
          lock_version_int == PyIntConv(lock_version)
          lock == UnpackDataclass("BlupkgLock", lock_dict)
      IN IF ~env.ok THEN Raised(env.err, FALSE)
         ELSE IF "Blupkg.lock" \notin Keys(files) THEN Loaded(env.val, PyNone, FALSE)
         ELSE IF lock_version = PyNone THEN Loaded(env.val, PyNone, FALSE)
         ELSE IF ~lock_version_int.ok /\ lock_version_int.err = "ValueError"
         THEN Loaded(env.val, PyNone, FALSE)
         ELSE IF ~lock_version_int.ok THEN Raised(lock_version_int.err, FALSE)
         ELSE IF lock_version_int.n < SupportedLockVersion THEN Loaded(env.val, PyNone, FALSE)
         ELSE IF lock_version_int.n > SupportedLockVersion THEN Raised("RuntimeError", FALSE)
         ELSE IF lock.ok THEN Loaded(env.val, lock.val, TRUE)
         ELSE Raised(lock.err, TRUE)

(***************************************************************************)
(* The operations on text.                                                 *)
(***************************************************************************)
\* str(v) for the version under test
Str ==
    /\ pc = "value"
    /\ txt' = SemVerStr(ver[1])
    /\ pc' = "text"
    /\ UNCHANGED <<ver, ty, args, res>>

\* SemVerExact.parse(txt)
ParseExact ==
    /\ pc = "text"
    /\ res' = SemVerParse(txt)
    /\ pc' = "parsed"
    /\ UNCHANGED <<ver, txt, ty, args>>

\* SemVerRange.parse(txt)
ParseRange ==
    /\ pc = "text"
    /\ res' = RangeParse(txt)
    /\ pc' = "ranged"
    /\ UNCHANGED <<ver, txt, ty, args>>

\* a < b for every pair of the three versions under test
Compare ==
    /\ pc = "versions"
    /\ res' = [ok |-> TRUE, err |-> "",
               lt |-> [i \in 1..3 |-> [j \in 1..3 |-> Lt(ver[i], ver[j])]]]
    /\ pc' = "compared"
    /\ UNCHANGED <<ver, txt, ty, args>>

\* unpack_dataclass(ty, args): args stays the caller's mapping as passed,
\* res.data is the same mapping as the call leaves it
Unpack ==
    /\ pc = "data"
    /\ res' = UnpackDataclass(ty, args)
    /\ pc' = "unpacked"
    /\ UNCHANGED <<ver, txt, ty, args>>

\* BlupkgDep(**args)
ConstructDep ==
    /\ pc = "kwargs"
    /\ res' = Construct("BlupkgDep", args)
    /\ pc' = "constructed"
    /\ UNCHANGED <<ver, txt, ty, args>>

\* load_blupkg_environment() in a directory holding the files args
Load ==
    /\ pc = "files"
    /\ res' = LoadBlupkgEnvironment(args)
    /\ pc' = "loaded"
    /\ UNCHANGED <<ver, txt, ty, args>>

(***************************************************************************)
(* Inputs.                                                                 *)
(***************************************************************************)
\* all sequences over S of length at most n
RECURSIVE SeqsUpTo(_, _)
SeqsUpTo(S, n) ==
    IF n = 0 THEN {<<>>}
    ELSE LET shorter == SeqsUpTo(S, n - 1)
         IN shorter \cup {Append(q, x) : q \in {r \in shorter : Len(r) = n - 1}, x \in S}

\* "5", "0.3", "0.9", "2.3", "1.2.3", "0.0.9", "x"
Heads ==
    { <<53>>, <<48, 46, 51>>, <<48, 46, 57>>, <<50, 46, 51>>,
      <<49, 46, 50, 46, 51>>, <<48, 46, 48, 46, 57>>, <<120>> }

\* '0', 'a', '-', '.', '+'
TailChars == {48, 97, 45, 46, 43}

InputStrings == {h \o t : h \in Heads, t \in SeqsUpTo(TailChars, MaxTail)}

\* identifiers of the versions to format: 0, 11, "a", "a-1"
FormatIds == {NumId(0), NumId(11), StrId(<<97>>), StrId(<<97, 45, 49>>)}

\* build metadata of the versions to format: none, "b", "b.7"
FormatBuilds == {<<>>, <<<<98>>>>, <<<<98>>, <<55>>>>}

FormatParts == (0..MaxPart) \cup {12}

FormatVersions ==
    {SemVerExact(ma, mi, pa, pre, bm) :
        ma \in FormatParts, mi \in FormatParts, pa \in FormatParts,
        pre \in SeqsUpTo(FormatIds, MaxPre), bm \in FormatBuilds}

\* a version is built, printed and parsed back
InitRoundTrip ==
    /\ pc = "value"
    /\ ver \in {<<v>> : v \in FormatVersions}
    /\ txt = <<>>
    /\ ty = "none"
    /\ args = Blank
    /\ res = NoResult

NextRoundTrip == Str \/ ParseExact

SpecRoundTrip == InitRoundTrip /\ [][NextRoundTrip]_vars

\* a string is parsed as an exact version or as a range
InitParse ==
    /\ pc = "text"
    /\ ver = <<>>
    /\ txt \in InputStrings
    /\ ty = "none"
    /\ args = Blank
    /\ res = NoResult

NextParse == ParseExact \/ ParseRange

SpecParse == InitParse /\ [][NextParse]_vars
\* the precedence chain of semver.org:
\* 1.0.0-alpha < 1.0.0-alpha.1 < 1.0.0-alpha.beta < 1.0.0-beta < 1.0.0-beta.2
\*   < 1.0.0-beta.11 < 1.0.0-rc.1 < 1.0.0 < 2.0.0 < 2.1.0 < 2.1.1
Chain ==
    LET alpha == StrId(<<97, 108, 112, 104, 97>>)
        beta == StrId(<<98, 101, 116, 97>>)
        rc == StrId(<<114, 99>>)
    IN << SemVerExact(1, 0, 0, <<alpha>>, <<>>),
          SemVerExact(1, 0, 0, <<alpha, NumId(1)>>, <<>>),
          SemVerExact(1, 0, 0, <<alpha, beta>>, <<>>),
          SemVerExact(1, 0, 0, <<beta>>, <<>>),
          SemVerExact(1, 0, 0, <<beta, NumId(2)>>, <<>>),
          SemVerExact(1, 0, 0, <<beta, NumId(11)>>, <<>>),
          SemVerExact(1, 0, 0, <<rc, NumId(1)>>, <<>>),
          SemVerExact(1, 0, 0, <<>>, <<>>),
          SemVerExact(2, 0, 0, <<>>, <<>>),
          SemVerExact(2, 1, 0, <<>>, <<>>),
          SemVerExact(2, 1, 1, <<>>, <<>>) >>

\* identifiers of the generated versions to compare: 2, 11, "a"
OrderIds == {NumId(2), NumId(11), StrId(<<97>>)}

OrderVersions ==
    {Chain[i] : i \in 1..Len(Chain)} \cup
    {SemVerExact(m[1], m[2], m[3], pre, bm) :
        m \in {<<1, 0, 0>>, <<0, 1, 1>>},
        pre \in SeqsUpTo(OrderIds, MaxPre),
        bm \in {<<>>, <<<<98>>>>}}

\* three versions are compared with each other
InitOrder ==
    /\ pc = "versions"
    /\ ver \in {<<a, b, c>> : a \in OrderVersions, b \in OrderVersions, c \in OrderVersions}
    /\ txt = <<>>
    /\ ty = "none"
    /\ args = Blank
    /\ res = NoResult

NextOrder == Compare

SpecOrder == InitOrder /\ [][NextOrder]_vars
(***************************************************************************)
(* Properties of the SemVer model.                                         *)
(***************************************************************************)
\* C1: printing a version and parsing the text back gives the version,
\* equal in every field.
RoundTrip ==
    (pc = "parsed" /\ Len(ver) = 1) => (res.ok /\ res.val = ver[1])

AllDigits(s, i, j) == i <= j /\ \A k \in i..j : IsDigit(s[k])

\* a non-empty run of identifier characters; with dots, the run is a
\* dot-separated list
AllClass(s, i, j) == i <= j /\ \A k \in i..j : InClass(s[k])

\* no identifier of the dot-separated list s[i..j] is empty
NoEmptyId(s, i, j) ==
    /\ s[i] # 46
    /\ s[j] # 46
    /\ \A k \in i..(j - 1) : ~(s[k] = 46 /\ s[k + 1] = 46)

\* s[c+1..] is [-PRERELEASE][+BUILD] with no empty prerelease identifier
SuffixOK(s, c) ==
    LET n == Len(s)
    IN \/ c = n
       \/ s[c + 1] = 45 /\ AllClass(s, c + 2, n) /\ NoEmptyId(s, c + 2, n)
       \/ s[c + 1] = 43 /\ AllClass(s, c + 2, n)
       \/ \E d \in (c + 2)..(n - 2) :
            /\ s[c + 1] = 45 /\ AllClass(s, c + 2, d) /\ NoEmptyId(s, c + 2, d)
            /\ s[d + 1] = 43 /\ AllClass(s, d + 2, n)

\* s is MAJOR.MINOR.PATCH[-PRERELEASE][+BUILD] and no prerelease identifier
\* is empty
InGrammar(s) ==
    \E a \in 1..Len(s), b \in 1..Len(s), c \in 1..Len(s) :
        /\ AllDigits(s, 1, a)
        /\ a + 1 < b /\ s[a + 1] = 46 /\ AllDigits(s, a + 2, b)
        /\ b + 1 < c /\ s[b + 1] = 46 /\ AllDigits(s, b + 2, c)
        /\ SuffixOK(s, c)

\* s is MAJOR.MINOR.PATCH and nothing more
IsPlain(s) ==
    \E a \in 1..Len(s), b \in 1..Len(s) :
        /\ AllDigits(s, 1, a)
        /\ a + 1 < b /\ s[a + 1] = 46 /\ AllDigits(s, a + 2, b)
        /\ b + 1 < Len(s) /\ s[b + 1] = 46 /\ AllDigits(s, b + 2, Len(s))

\* C2: parse succeeds exactly on the strings of the grammar whose
\* prerelease identifiers are non-empty, and a plain MAJOR.MINOR.PATCH
\* parses to a version with no prerelease and no build metadata.
ParseAcceptsGrammar ==
    pc = "parsed" /\ Len(ver) = 0 =>
        /\ res.ok <=> InGrammar(txt)
        /\ IsPlain(txt) =>
             res.ok /\ res.val.prerelease = <<>> /\ res.val.build_metadata = <<>>

\* ASCII order of two strings: the first differing character decides, and a
\* proper prefix is lower
AsciiLess(s, t) ==
    \/ \E k \in 1..Min(Len(s), Len(t)) :
          (\A i \in 1..(k - 1) : s[i] = t[i]) /\ s[k] < t[k]
    \/ Len(s) < Len(t) /\ \A i \in 1..Len(s) : s[i] = t[i]

\* the order of two prerelease identifiers
IdLess(x, y) ==
    \/ x.isint /\ y.isint /\ x.n < y.n
    \/ x.isint /\ ~y.isint
    \/ ~x.isint /\ ~y.isint /\ AsciiLess(x.s, y.s)

\* the reference ordering law
RefLess(a, b) ==
    LET p == a.prerelease
        q == b.prerelease
        shared == 1..Min(Len(p), Len(q))
    IN \/ a.major < b.major
       \/ a.major = b.major /\ a.minor < b.minor
       \/ a.major = b.major /\ a.minor = b.minor /\ a.patch < b.patch
       \/ /\ a.major = b.major /\ a.minor = b.minor /\ a.patch = b.patch
          /\ \/ p # <<>> /\ q = <<>>
             \/ /\ p # <<>> /\ q # <<>>
                /\ \/ \E k \in shared :
                         (\A i \in 1..(k - 1) : p[i] = q[i]) /\ p[k] # q[k]
                            /\ IdLess(p[k], q[k])
                   \/ (\A i \in shared : p[i] = q[i]) /\ Len(p) < Len(q)

SameButBuild(a, b) ==
    /\ a.major = b.major /\ a.minor = b.minor /\ a.patch = b.patch
    /\ a.prerelease = b.prerelease

\* where a version stands in the semver.org chain (0: not in it)
ChainPos(v) == IF \E i \in 1..Len(Chain) : Chain[i] = v
               THEN CHOOSE i \in 1..Len(Chain) : Chain[i] = v
               ELSE 0

\* C3: __lt__ computes the reference ordering law, build metadata never
\* changes the result, and the semver.org chain is ordered as written.
LtIsReferenceOrder ==
    pc = "compared" =>
        \A i \in 1..3, j \in 1..3 :
            /\ res.lt[i][j] = RefLess(ver[i], ver[j])
            /\ \A k \in 1..3 :
                  SameButBuild(ver[j], ver[k]) =>
                      res.lt[i][j] = res.lt[i][k] /\ res.lt[j][i] = res.lt[k][i]
            /\ (ChainPos(ver[i]) > 0 /\ ChainPos(ver[i]) < ChainPos(ver[j])) =>
                  res.lt[i][j] /\ ~res.lt[j][i]

\* 1.0.0-beta.2 < 1.0.0-beta.11 < 1.0.0 has been computed
LtIsReferenceOrderWitness ==
    /\ pc = "compared"
    /\ ver = <<Chain[5], Chain[6], Chain[8]>>
    /\ res.lt[1][2] /\ res.lt[2][3] /\ ~res.lt[2][1]

\* C4: __lt__ is a strict order: never a < a, never both a < b and b < a,
\* and a < b with b < c gives a < c.
LtIsStrictOrder ==
    pc = "compared" =>
        /\ \A i \in 1..3 : ~res.lt[i][i]
        /\ \A i \in 1..3, j \in 1..3 : ~(res.lt[i][j] /\ res.lt[j][i])
        /\ (res.lt[1][2] /\ res.lt[2][3]) => res.lt[1][3]

\* a chain a < b < c through prereleases of differing lengths that mix
\* numeric and alphanumeric identifiers has been computed
LtIsStrictOrderWitness ==
    /\ pc = "compared"
    /\ res.lt[1][2] /\ res.lt[2][3] /\ res.lt[1][3]
    /\ <<ver[1].major, ver[1].minor, ver[1].patch>> = <<ver[2].major, ver[2].minor, ver[2].patch>>
    /\ <<ver[2].major, ver[2].minor, ver[2].patch>> = <<ver[3].major, ver[3].minor, ver[3].patch>>
    /\ Len(ver[1].prerelease) = 1 /\ Len(ver[2].prerelease) = 2
    /\ Len(ver[3].prerelease) = 1
    /\ ver[1].prerelease[1].isint
    /\ ~ver[2].prerelease[1].isint /\ ver[2].prerelease[2].isint
    /\ ~ver[3].prerelease[1].isint

\* "MAJOR.MINOR.PATCH" for three numbers
Dotted(ma, mi, pa) ==
    IntToStr(ma) \o <<46>> \o IntToStr(mi) \o <<46>> \o IntToStr(pa)

\* Range(parseExact(lo), parseExact(hi)), when both parse
RangeOfParsed(lo, hi) ==
    LET l == SemVerParse(lo)
        h == SemVerParse(hi)
    IN IF l.ok /\ h.ok
       THEN [ok |-> TRUE, err |-> "", val |-> SemVerRange(l.val, h.val)]
       ELSE [ok |-> FALSE, err |-> "a bound does not parse"]

\* C5: a string MAJOR[.MINOR[.PATCH]] parses to the range from
\* parseExact("MAJOR.MINOR.PATCH") to parseExact("0.(MINOR+1).0") when MAJOR
\* is 0 and to parseExact("(MAJOR+1).0.0") otherwise; any other string fails.
RangeIsRangeOfParsed ==
    pc = "ranged" =>
        LET m == PermissiveMatch(txt)
            ma == StrToInt(m.major)
            mi == StrToInt(m.minor)
            pa == StrToInt(m.patch)
        IN IF m.matched
           THEN res = RangeOfParsed(Dotted(ma, mi, pa),
                                    IF ma = 0 THEN Dotted(0, mi + 1, 0)
                                    ELSE Dotted(ma + 1, 0, 0))
           ELSE ~res.ok
(***************************************************************************)
(* Untyped inputs.                                                         *)
(***************************************************************************)
\* the dicts that give every key k either no entry (Blank) or a value of
\* cand[k]
DictsOver(cand) ==
    LET all == UNION {cand[k] : k \in DOMAIN cand}
        picks == {f \in [DOMAIN cand -> all] : \A k \in DOMAIN cand : f[k] \in cand[k]}
    IN {PyDict([k \in {x \in DOMAIN f : f[x] # Blank} |-> f[k]]) : f \in picks}

ItemNames == <<"0", "1", "2", "3">>

\* a list of the given elements
ListOf(elems) == PyList([k \in {ItemNames[i] : i \in 1..Len(elems)} |->
                           elems[CHOOSE i \in 1..Len(elems) : ItemNames[i] = k]])

\* the lists of at most MaxItems elements of S
ListsOf(S) == {ListOf(q) : q \in SeqsUpTo(S, MaxItems)}

\* the dicts with at most MaxItems entries, with values of S
DictsOf(S) == DictsOver([k \in {ItemNames[i] : i \in 1..MaxItems} |-> S \cup {Blank}])

\* one dependency table: git with a version, git and path together, nothing
\* at all, or no table
DepEntries ==
    { PyDict([k \in {"git", "version"} |-> PyStr(TextX)]),
      PyDict([k \in {"git", "path"} |-> PyStr(TextX)]),
      PyDict(<<>>),
      PyStr(TextX) }

DependenciesValues == DictsOf(DepEntries) \cup {PyList(<<>>), PyStr(TextX)}

ProjectData ==
    DictsOver([name |-> {Blank, PyStr(TextX), PyInt(1)},
               version |-> {Blank, PyStr(TextX), PyInt(1)},
               toplevel |-> {Blank, PyStr(TextX), PyNone, PyInt(1)},
               defines |-> {Blank, PyDict(<<>>), PyList(<<>>)},
               features |-> {Blank, PyDict(<<>>), PyStr(TextX)},
               bogus |-> {Blank, PyStr(TextX)}])

ProjectValues ==
    DictsOver([name |-> {Blank, PyStr(TextX)},
               version |-> {Blank, PyStr(TextX), PyInt(1)}])
        \cup {PyStr(TextX), PyList(<<>>)}

BuildData == DictsOver([target_dir |-> {Blank, PyStr(TextX), PyInt(1)}])

EnvData ==
    DictsOver([project |-> ProjectValues \cup {Blank},
               build |-> BuildData \cup {Blank, PyInt(1)},
               dependencies |-> DependenciesValues \cup {Blank}])

DepData ==
    DictsOver([git |-> {Blank, PyStr(TextX)},
               path |-> {Blank, PyStr(TextX)},
               version |-> {Blank, PyStr(TextX), PyInt(1)},
               tag |-> {Blank, PyStr(TextX)},
               optional |-> {Blank, PyBool(TRUE), PyStr(TextX)}])

PackageData ==
    DictsOver([name |-> {Blank, PyStr(TextX)},
               version |-> {Blank, PyStr(TextX), PyInt(1)},
               dependencies |-> DependenciesValues \cup {Blank},
               git |-> {Blank, ListOf(<<PyStr(TextX), PyStr(TextX)>>), PyStr(TextX)},
               path |-> {Blank, PyStr(TextX)}])

\* one element of packages: a package, a package with a conflicting
\* dependency, a table with no fields, or no table
PackageEntries ==
    { PyDict([k \in {"name", "version", "dependencies"} |->
                IF k = "dependencies" THEN PyDict(<<>>) ELSE PyStr(TextX)]),
      PyDict([k \in {"name", "version", "dependencies"} |->
                IF k = "dependencies"
                THEN PyDict([d \in {"0"} |-> PyDict([x \in {"git", "path"} |-> PyStr(TextX)])])
                ELSE PyStr(TextX)]),
      PyDict(<<>>),
      PyStr(TextX) }

LockData ==
    DictsOver([packages |-> ListsOf(PackageEntries) \cup {Blank, PyStr(TextX)},
               version |-> {Blank, PyInt(1), PyBool(TRUE), PyStr(<<49>>)}])

NotDicts == {PyStr(TextX), PyInt(1), PyList(<<>>), PyNone}

DataFor(cls) ==
    NotDicts \cup
    CASE cls = "BlupkgBuild" -> BuildData
      [] cls = "BlupkgProject" -> ProjectData
      [] cls = "BlupkgDep" -> DepData
      [] cls = "BlupkgEnv" -> EnvData
      [] cls = "BlupkgLockedPackage" -> PackageData
      [] cls = "BlupkgLock" -> LockData

\* a mapping is decoded against one of the declared records
InitDecode ==
    /\ pc = "data"
    /\ ver = <<>>
    /\ txt = <<>>
    /\ ty \in Dataclasses
    /\ args \in DataFor(ty)
    /\ res = NoResult

NextDecode == Unpack

SpecDecode == InitDecode /\ [][NextDecode]_vars

\* keyword arguments of BlupkgDep: unset, None, "" or "x"
DepKwargs ==
    DictsOver([git |-> {Blank, PyNone, PyStr(<<>>), PyStr(TextX)},
               path |-> {Blank, PyNone, PyStr(<<>>), PyStr(TextX)},
               version |-> {Blank, PyStr(<<>>), PyStr(TextX)},
               rev |-> {Blank, PyStr(TextX)},
               tag |-> {Blank, PyStr(TextX)},
               branch |-> {Blank, PyStr(TextX)},
               optional |-> {Blank, PyBool(TRUE)}])

\* a BlupkgDep is constructed
InitDep ==
    /\ pc = "kwargs"
    /\ ver = <<>>
    /\ txt = <<>>
    /\ ty = "BlupkgDep"
    /\ args \in DepKwargs
    /\ res = NoResult

NextDep == ConstructDep

SpecDep == InitDep /\ [][NextDep]_vars

\* the version field of a lock file: 0, 1, 2, "1", "2", "x", 0.5, 1.5, 2.5,
\* true, false, an array, a table, or no field
LockVersions ==
    { Blank, PyInt(0), PyInt(1), PyInt(2),
      PyStr(<<49>>), PyStr(<<50>>), PyStr(TextX),
      PyFloat(5), PyFloat(15), PyFloat(25),
      PyBool(TRUE), PyBool(FALSE),
      PyList(<<>>), ListOf(<<PyInt(1)>>), PyDict(<<>>) }

LockFiles ==
    DictsOver([version |-> LockVersions,
               packages |-> ListsOf(PackageEntries) \cup {Blank, PyStr(TextX)}])

\* Blupkg.toml: a project, or a table with no project
TomlFiles ==
    { PyDict([k \in {"project"} |-> PyDict([f \in {"name", "version"} |-> PyStr(TextX)])]),
      PyDict(<<>>) }

\* an environment is loaded from a directory
InitLoad ==
    /\ pc = "files"
    /\ ver = <<>>
    /\ txt = <<>>
    /\ ty = "none"
    /\ args \in DictsOver([k \in {"Blupkg.toml", "Blupkg.lock"} |->
                             IF k = "Blupkg.toml" THEN TomlFiles \cup {Blank}
                             ELSE LockFiles \cup {Blank}])
    /\ res = NoResult

NextLoad == Load

SpecLoad == InitLoad /\ [][NextLoad]_vars
(***************************************************************************)
(* Properties of the records, the decoder and the loader.                  *)
(***************************************************************************)
\* a keyword argument is given and is neither None nor empty
IsSet(kwargs, k) == k \in Keys(kwargs) /\ Truthy(kwargs.v[k])

HowManySet(kwargs, names) == Cardinality({k \in names : IsSet(kwargs, k)})

\* C6: a BlupkgDep is constructed exactly when one of git, path and one of
\* version, rev, tag, branch are set.
DepNeedsOneSourceOneSelector ==
    pc = "constructed" =>
        (res.ok <=> /\ HowManySet(args, {"git", "path"}) = 1
                    /\ HowManySet(args, {"version", "rev", "tag", "branch"}) = 1)

\* Blupkg.toml opens and decodes, and Blupkg.lock opens
ReachesLock(files) ==
    /\ "Blupkg.toml" \in Keys(files)
    /\ UnpackDataclass("BlupkgEnv", files.v["Blupkg.toml"]).ok
    /\ "Blupkg.lock" \in Keys(files)

\* C7: with a lock file present, a version above the supported one is fatal;
\* no version, a version that is no integer and an integer below the
\* supported one give no lock, undecoded and without an exception; only an
\* integer equal to the supported one has the lock decoded.
LockVersionHandling ==
    (pc = "loaded" /\ ReachesLock(args)) =>
        LET lock_dict == args.v["Blupkg.lock"]
            present == "version" \in Keys(lock_dict)
            isInteger == present /\ lock_dict.v["version"].kind = "int"
            n == lock_dict.v["version"].n
        IN /\ (isInteger /\ n > SupportedLockVersion) =>
                 (~res.ok /\ res.err = "RuntimeError")
           /\ (~isInteger \/ n < SupportedLockVersion) =>
                 (res.ok /\ res.lock = PyNone /\ ~res.decoded)
           /\ res.decoded <=> (isInteger /\ n = SupportedLockVersion)

\* the declared type of the i-th field, with Optional removed
Unwrapped(cls, i) ==
    IF IsUnion(Fields(cls)[i].type) THEN UnionArg(Fields(cls)[i].type)
    ELSE Fields(cls)[i].type

\* the i-th field is given a value of the wrong shape: no mapping for a
\* record, the wrong outer kind for anything else
WrongShape(cls, data, i) ==
    /\ Fields(cls)[i].name \in Keys(data)
    /\ IF IsDataclass(Unwrapped(cls, i))
       THEN data.v[Fields(cls)[i].name].kind # "dict"
       ELSE ~IsInstance(data.v[Fields(cls)[i].name], OriginOrType(Unwrapped(cls, i)))

\* the i-th field is absent and has neither a default nor a default factory
MissingRequired(cls, data, i) ==
    Fields(cls)[i].name \notin Keys(data) /\ Fields(cls)[i].required

\* the i-th field stops the decoding
Offending(cls, data, i) ==
    \/ MissingRequired(cls, data, i)
    \/ WrongShape(cls, data, i)
    \/ /\ Fields(cls)[i].name \in Keys(data)
       /\ IsDataclass(Unwrapped(cls, i))
       /\ ~UnpackDataclass(Unwrapped(cls, i), data.v[Fields(cls)[i].name]).ok

\* the first offending field in declared order, 0 when there is none
FirstOffending(cls, data) ==
    IF \E i \in 1..Len(Fields(cls)) : Offending(cls, data, i)
    THEN CHOOSE i \in 1..Len(Fields(cls)) :
            Offending(cls, data, i) /\ \A j \in 1..(i - 1) : ~Offending(cls, data, j)
    ELSE 0

IsMissingFieldError(r) == ~r.ok /\ r.err = "requires a field but none was supplied"

IsSchemaTypeError(r) ==
    ~r.ok /\ r.err \in {"must be built from a dictionary", "requires the field to be of type"}

\* C8: decoding fails for an absent key exactly when the field has no
\* default; the error names that field, which is the first offending field
\* in declared order; an absent field with a default causes no failure and
\* gets its default from the constructor, not in the mapping.
MissingFieldLaw ==
    (pc = "unpacked" /\ args.kind = "dict") =>
        LET k == FirstOffending(ty, args)
        IN /\ (k > 0 /\ MissingRequired(ty, args, k)) =>
                 (IsMissingFieldError(res) /\ res.ty = ty /\ res.field = Fields(ty)[k].name)
           /\ (IsMissingFieldError(res) /\ res.ty = ty) =>
                 (k > 0 /\ MissingRequired(ty, args, k) /\ res.field = Fields(ty)[k].name)
           /\ \A i \in 1..Len(Fields(ty)) :
                 (Fields(ty)[i].name \notin Keys(args) /\ ~Fields(ty)[i].required) =>
                     /\ ~(~res.ok /\ res.ty = ty /\ res.field = Fields(ty)[i].name)
                     /\ Fields(ty)[i].name \notin Keys(res.data)
                     /\ res.ok => res.val.v[Fields(ty)[i].name] = Fields(ty)[i].default

\* a project with a name, no version and no toplevel has been refused for
\* its version
MissingFieldLawWitness ==
    /\ pc = "unpacked"
    /\ ty = "BlupkgProject"
    /\ args.kind = "dict"
    /\ Keys(args) = {"name", "defines"}
    /\ FirstOffending(ty, args) = 2
    /\ IsMissingFieldError(res) /\ res.field = "version"

\* C9: a present value of the wrong shape makes decoding fail with a type
\* error naming the field, the expected type and the value received, also
\* when a nested record is given no mapping; an input that is no mapping
\* fails with a type error.
WrongShapeLaw ==
    pc = "unpacked" =>
        IF args.kind # "dict" THEN IsSchemaTypeError(res)
        ELSE LET k == FirstOffending(ty, args)
             IN (k > 0 /\ WrongShape(ty, args, k)) =>
                   /\ IsSchemaTypeError(res)
                   /\ res.field = Fields(ty)[k].name
                   /\ res.expected = Unwrapped(ty, k)
                   /\ res.got = args.v[Fields(ty)[k].name]

\* x is a BlupkgDep that passed the constructor's check
IsValidDep(x) == x.kind = "BlupkgDep" /\ DepPostInit(x) = ""

AllValidDeps(deps) == \A k \in Keys(deps) : IsValidDep(deps.v[k])

\* C10: a decoded environment or lock is fully typed: its dependencies are
\* BlupkgDep records that passed the constructor's check and its packages
\* are BlupkgLockedPackage records.
DecodedIsFullyTyped ==
    (pc = "unpacked" /\ res.ok) =>
        /\ ty = "BlupkgEnv" => AllValidDeps(res.val.v["dependencies"])
        /\ ty = "BlupkgLock" =>
              \A k \in Keys(res.val.v["packages"]) :
                  /\ res.val.v["packages"].v[k].kind = "BlupkgLockedPackage"
                  /\ AllValidDeps(res.val.v["packages"].v[k].v["dependencies"])

====
